---- MODULE Spec2Model ----
(***************************************************************************)
(* A model of the openbp branch-and-price search tree (src/src/core).      *)
(*                                                                         *)
(* BPNode and BPTree are modelled field by field.  A node handle (the      *)
(* BPNode* the pool hands out) is identified with the key under which the  *)
(* tree registers the node in nodes_.  Reals are modelled as integers in   *)
(* units of the pruning tolerance 1e-6 (EPSILON = 1), with INF / NEG_INF   *)
(* standing for the IEEE infinities; arithmetic on them saturates.         *)
(* A BranchingDecision is pure data and is modelled as an opaque token.    *)
(* The four NodeSelector classes are modelled by the handles they hold and *)
(* their scheduling members, and NodePool by its counters and the chunks   *)
(* it owns.                                                                *)
(***************************************************************************)
EXTENDS Integers, Sequences, FiniteSets, TLC

\* ------------------------------------------------------------------ bounds
\* Largest number of nodes a tree may hold (root included).
MaxNodes == 3
\* Largest number of API calls in one behaviour.
MaxOps == 3
\* Largest number of API calls in one behaviour of the specifications that
\* exercise the global bounds and the incumbent.
MaxOpsBounds == 5
\* Largest number of API calls in one behaviour of the specification that
\* follows the optimality gap.
MaxOpsGap == 6
\* Largest number of API calls in one behaviour of the specifications that
\* follow a driver through its selections.
MaxOpsDrive == 7
\* Largest number of API calls in one behaviour of the specifications in
\* which the driver processes each node before it asks for the next one.
MaxOpsLoop == 9
\* Largest number of API calls in one behaviour of the specification that
\* follows a BestEstimateSelector.
MaxOpsEstimate == 8
\* Largest number of slots a pool hands out between two clears.
MaxAllocs == 4
\* Largest number of calls on a pool in one behaviour.
MaxOpsPool == 6

\* --------------------------------------------------------------- constants
INVALID_ID == -1
DEFAULT_CHUNK_SIZE == 1024
INF == 1000
NEG_INF == -1000
EPSILON == 1

NodeStatus ==
  {"PENDING", "PROCESSING", "BRANCHED", "PRUNED_BOUND",
   "PRUNED_INFEASIBLE", "INTEGER", "FATHOMED"}

\* Inputs the driver and the external solver may pass.
Decisions == {"d1", "d2"}
DecisionLists == {<<>>, <<"d1">>, <<"d1", "d2">>, <<"d2", "d1">>}
NodeBoundValues == {5, 9}
GlobalBoundValues == {6, 10}
\* Values the driver may pass to set_global_lower_bound.
GlobalLowerBoundValues == {-10, 2, 4}
\* Parameters a HybridSelector may be constructed with.
DiveFrequencies == {1, 2}
DiveDepths == {1, 2}
\* Chunk sizes a pool is constructed with.
ChunkSizes == {1, 2, 3}
\* Addresses at which the allocator may place a chunk: one more than the
\* chunks a pool can own at a time.
ChunkAddresses == 1..(MaxAllocs + 1)
\* Node ids a caller may pass: every id a tree can hold, one id no tree
\* holds (MaxNodes), and INVALID_ID.
NodeIds == INVALID_ID..MaxNodes
\* Lists of two nodes handed to add_nodes.
NodePairs ==
  {p \in (0..(MaxNodes - 1)) \X (0..(MaxNodes - 1)) : p[1] < p[2]}
\* Lists of open-node ids handed to compute_lower_bound.
IdLists ==
  {<<>>} \cup {<<a>> : a \in 0..MaxNodes}
         \cup {<<a, b>> : a \in 0..MaxNodes, b \in 0..MaxNodes}

VARIABLES
  minimize_,            \* BPTree::minimize_
  nodes_,               \* BPTree::nodes_ : id -> node (the node's fields)
  next_id_,             \* BPTree::next_id_
  stats_,               \* BPTree::stats_
  global_lower_bound_,  \* BPTree::global_lower_bound_
  global_upper_bound_,  \* BPTree::global_upper_bound_
  incumbent_,           \* BPTree::incumbent_ (a node id, or INVALID_ID for nullptr)
  selector_,            \* the driver's NodeSelector: its class and its members
  unreturned,           \* history: per node, add_node calls that took it in and
                        \* that no select_next has answered yet
  hist,                 \* history of the selector: what add_node, select_next
                        \* and on_bound_update were called with so far
  pool,                 \* a NodePool<T> on its own: its members
  handed,               \* history: the slots allocate() returned since the
                        \* pool was constructed or last cleared
  last,                 \* the call made by the last step, with its arguments and result
  ops,                  \* number of calls made so far
  budget,               \* number of calls this behaviour may make
  in_contract           \* history: every call so far kept to the driver's contract

vars ==
  <<minimize_, nodes_, next_id_, stats_, global_lower_bound_, global_upper_bound_,
    incumbent_, selector_, unreturned, hist, pool, handed, last, ops, budget,
    in_contract>>

\* ------------------------------------------------------------------ BPNode

\* a - b on the extended reals, for finite b
Minus(a, b) == IF a = INF THEN INF ELSE IF a = NEG_INF THEN NEG_INF ELSE a - b

Max(a, b) == IF a > b THEN a ELSE b

\* BPNode::BPNode()
BPNode_root ==
  [id |-> 0, parent_id |-> INVALID_ID, depth |-> 0,
   lower_bound |-> NEG_INF, upper_bound |-> INF, lp_value |-> INF,
   status |-> "PENDING", is_integer |-> FALSE,
   inherited_decisions |-> <<>>, local_decisions |-> <<>>,
   children |-> <<>>]

\* BPNode::BPNode(id, parent_id, depth, decision)
BPNode_child(id, parent_id, depth, decision) ==
  [id |-> id, parent_id |-> parent_id, depth |-> depth,
   lower_bound |-> NEG_INF, upper_bound |-> INF, lp_value |-> INF,
   status |-> "PENDING", is_integer |-> FALSE,
   inherited_decisions |-> <<>>, local_decisions |-> <<decision>>,
   children |-> <<>>]

is_processed(n) == n.status # "PENDING" /\ n.status # "PROCESSING"

can_be_explored(n) == n.status = "PENDING"

\* all_decisions with the local decisions left out
all_decisions_only_inherited(n) == n.inherited_decisions

\* BPNode::all_decisions
all_decisions(n) == n.inherited_decisions \o n.local_decisions

num_decisions(n) == Len(n.inherited_decisions) + Len(n.local_decisions)

add_local_decision(n, decision) ==
  [n EXCEPT !.local_decisions = Append(@, decision)]

\* add_child linking the child twice
add_child_twice(n, child_id) ==
  [n EXCEPT !.children = Append(Append(@, child_id), child_id)]

\* BPNode::add_child
add_child(n, child_id) == [n EXCEPT !.children = Append(@, child_id)]

\* try_prune_by_bound without the 1e-6 tolerance
try_prune_by_bound_no_tolerance(n, global_upper) ==
  IF n.lower_bound >= global_upper
    THEN [node |-> [n EXCEPT !.status = "PRUNED_BOUND"], ret |-> TRUE]
    ELSE [node |-> n, ret |-> FALSE]

\* BPNode::try_prune_by_bound: the node afterwards and the returned flag
try_prune_by_bound(n, global_upper) ==
  IF n.lower_bound >= Minus(global_upper, EPSILON)
    THEN [node |-> [n EXCEPT !.status = "PRUNED_BOUND"], ret |-> TRUE]
    ELSE [node |-> n, ret |-> FALSE]

\* ------------------------------------------------------------------ BPTree

TreeStats ==
  [nodes_created |-> 0, nodes_processed |-> 0, nodes_pruned_bound |-> 0,
   nodes_pruned_infeasible |-> 0, nodes_integer |-> 0, nodes_branched |-> 0,
   nodes_open |-> 0, max_depth |-> 0,
   best_lower_bound |-> NEG_INF, best_upper_bound |-> INF]

\* The part of a BPTree that node creation and status bookkeeping work on,
\* with the sense the tree was constructed with.
Tree ==
  [minimize |-> minimize_, nodes |-> nodes_, next_id |-> next_id_,
   stats |-> stats_]

num_nodes(t) == Cardinality(DOMAIN t.nodes)

\* create_child handing out the last id again instead of a fresh one
create_child_reuses_id(t, parent, decision) ==
  LET child_id == t.next_id - 1
      p == t.nodes[parent]
      c0 == BPNode_child(child_id, p.id, p.depth + 1, decision)
      child == [c0 EXCEPT !.inherited_decisions = all_decisions(p),
                          !.lower_bound = p.lower_bound,
                          !.upper_bound = p.upper_bound]
      linked == [t.nodes EXCEPT ![parent] = add_child(p, child_id)]
  IN [t |-> [nodes |-> (child_id :> child) @@ linked,
             next_id |-> t.next_id,
             stats |-> [t.stats EXCEPT
                          !.nodes_created = @ + 1,
                          !.nodes_open = @ + 1,
                          !.max_depth = Max(@, child.depth)]],
      child |-> child_id]

\* BPTree::create_child: the tree afterwards and the returned child
create_child(t, parent, decision) ==
  LET child_id == t.next_id
      p == t.nodes[parent]
      c0 == BPNode_child(child_id, p.id, p.depth + 1, decision)
      child == [c0 EXCEPT !.inherited_decisions = all_decisions(p),
                          !.lower_bound = p.lower_bound,
                          !.upper_bound = p.upper_bound]
      linked == [t.nodes EXCEPT ![parent] = add_child(p, child_id)]
  IN [t |-> [nodes |-> (child_id :> child) @@ linked,
             next_id |-> t.next_id + 1,
             stats |-> [t.stats EXCEPT
                          !.nodes_created = @ + 1,
                          !.nodes_open = @ + 1,
                          !.max_depth = Max(@, child.depth)]],
      child |-> child_id]

\* the for loop of BPTree::create_children
RECURSIVE create_children_loop(_, _, _, _)
create_children_loop(t, parent, decisions, children) ==
  IF decisions = <<>>
    THEN [t |-> t, children |-> children]
    ELSE LET r == create_child(t, parent, Head(decisions))
         IN create_children_loop(r.t, parent, Tail(decisions),
                                 Append(children, r.child))

\* create_children without the nodes_open decrement for the parent
create_children_keeps_open(t, parent, decisions) ==
  LET r == create_children_loop(t, parent, decisions, <<>>)
  IN [t |-> [r.t EXCEPT !.nodes[parent].status = "BRANCHED",
                        !.stats.nodes_branched = @ + 1],
      children |-> r.children]

\* BPTree::create_children: the tree afterwards and the returned children
create_children(t, parent, decisions) ==
  LET r == create_children_loop(t, parent, decisions, <<>>)
  IN [t |-> [r.t EXCEPT !.nodes[parent].status = "BRANCHED",
                        !.stats.nodes_branched = @ + 1,
                        !.stats.nodes_open = @ - 1],
      children |-> r.children]

\* BPTree::mark_processed
mark_processed(t, node, new_status) ==
  LET old_status == t.nodes[node].status
      counted == old_status = "PENDING" \/ old_status = "PROCESSING"
      s1 == IF counted
              THEN [t.stats EXCEPT
                      !.nodes_processed = @ + 1,
                      !.nodes_open = IF new_status # "BRANCHED" THEN @ - 1 ELSE @]
              ELSE t.stats
      s2 == CASE new_status = "PRUNED_BOUND" ->
                   [s1 EXCEPT !.nodes_pruned_bound = @ + 1]
              [] new_status = "PRUNED_INFEASIBLE" ->
                   [s1 EXCEPT !.nodes_pruned_infeasible = @ + 1]
              [] new_status = "INTEGER" ->
                   [s1 EXCEPT !.nodes_integer = @ + 1]
              [] OTHER -> s1
  IN [t EXCEPT !.nodes[node].status = new_status, !.stats = s2]

\* prune_by_bound forgetting that a pruned node is no longer open
prune_by_bound_keeps_open(t, global_upper) ==
  LET hit == {id \in DOMAIN t.nodes :
                /\ can_be_explored(t.nodes[id])
                /\ try_prune_by_bound(t.nodes[id], global_upper).ret}
      pruned == Cardinality(hit)
  IN [t |-> [t EXCEPT
               !.nodes = [id \in DOMAIN t.nodes |->
                            IF id \in hit
                              THEN try_prune_by_bound(t.nodes[id], global_upper).node
                              ELSE t.nodes[id]],
               !.stats.nodes_pruned_bound = @ + pruned],
      pruned |-> pruned]

\* BPTree::prune_by_bound: the tree afterwards and the returned count
prune_by_bound(t, global_upper) ==
  LET hit == {id \in DOMAIN t.nodes :
                /\ can_be_explored(t.nodes[id])
                /\ try_prune_by_bound(t.nodes[id], global_upper).ret}
      pruned == Cardinality(hit)
  IN [t |-> [t EXCEPT
               !.nodes = [id \in DOMAIN t.nodes |->
                            IF id \in hit
                              THEN try_prune_by_bound(t.nodes[id], global_upper).node
                              ELSE t.nodes[id]],
               !.stats.nodes_pruned_bound = @ + pruned,
               !.stats.nodes_open = @ - pruned],
      pruned |-> pruned]

\* BPTree::get_open_nodes: the ids it returns (their order is the iteration
\* order of the id -> node map)
get_open_nodes(t) == {id \in DOMAIN t.nodes : can_be_explored(t.nodes[id])}

\* BPTree::is_complete
is_complete(t) == t.stats.nodes_open = 0

\* std::min
Min(a, b) == IF b < a THEN b ELSE a

\* update_bounds accepting an integer node that only ties the bound
update_bounds_not_strict(t, global_upper, node) ==
  IF t.nodes[node].is_integer /\ t.nodes[node].lp_value <= global_upper
    THEN [t |-> [t EXCEPT !.stats.best_upper_bound = t.nodes[node].lp_value],
          global_upper_bound |-> t.nodes[node].lp_value,
          improved |-> TRUE]
    ELSE [t |-> t, global_upper_bound |-> global_upper, improved |-> FALSE]

\* BPTree::update_bounds: the tree and the global upper bound afterwards,
\* and the returned flag
update_bounds(t, global_upper, node) ==
  IF t.nodes[node].is_integer /\ t.nodes[node].lp_value < global_upper
    THEN [t |-> [t EXCEPT !.stats.best_upper_bound = t.nodes[node].lp_value],
          global_upper_bound |-> t.nodes[node].lp_value,
          improved |-> TRUE]
    ELSE [t |-> t, global_upper_bound |-> global_upper, improved |-> FALSE]

\* set_incumbent that never raises the global upper bound
set_incumbent_only_improves(t, global_upper, node) ==
  IF node # INVALID_ID /\ t.nodes[node].lp_value < global_upper
    THEN [t |-> [t EXCEPT !.stats.best_upper_bound = t.nodes[node].lp_value],
          global_upper_bound |-> t.nodes[node].lp_value,
          incumbent |-> node]
    ELSE [t |-> t, global_upper_bound |-> global_upper, incumbent |-> node]

\* BPTree::set_incumbent: node is a registered id, or INVALID_ID for nullptr
set_incumbent(t, global_upper, node) ==
  IF node # INVALID_ID
    THEN [t |-> [t EXCEPT !.stats.best_upper_bound = t.nodes[node].lp_value],
          global_upper_bound |-> t.nodes[node].lp_value,
          incumbent |-> node]
    ELSE [t |-> t, global_upper_bound |-> global_upper, incumbent |-> node]

RECURSIVE compute_lower_bound_loop(_, _, _)
\* the loop of BPTree::compute_lower_bound over the ids not yet visited
compute_lower_bound_loop(t, lb, ids) ==
  IF ids = <<>> THEN lb
  ELSE LET id == Head(ids)
           found == id \in DOMAIN t.nodes
       IN compute_lower_bound_loop(
            t,
            IF found /\ can_be_explored(t.nodes[id])
              THEN Min(lb, t.nodes[id].lower_bound)
              ELSE lb,
            Tail(ids))

\* compute_lower_bound starting from +infinity instead of the upper bound
compute_lower_bound_uncapped(t, global_upper, open_node_ids) ==
  compute_lower_bound_loop(t, INF, open_node_ids)

\* BPTree::compute_lower_bound
compute_lower_bound(t, global_upper, open_node_ids) ==
  compute_lower_bound_loop(t, global_upper, open_node_ids)

\* std::reverse
Reverse(seq) == [i \in 1..Len(seq) |-> seq[Len(seq) + 1 - i]]

RECURSIVE path_loop(_, _, _)
\* the while loop of BPTree::get_path_to_root
path_loop(t, current, path) ==
  IF current = INVALID_ID THEN path
  ELSE LET pushed == Append(path, current)
       IN IF current \notin DOMAIN t.nodes
            THEN pushed
            ELSE path_loop(t, t.nodes[current].parent_id, pushed)

\* get_path_to_root without the final std::reverse
get_path_to_root_not_reversed(t, target_id) ==
  path_loop(t, target_id, <<>>)

\* BPTree::get_path_to_root
get_path_to_root(t, target_id) ==
  Reverse(path_loop(t, target_id, <<>>))

\* A non-negative real that may be +infinity: num / den with den > 0, or inf.
Ratio(num, den) == [inf |-> FALSE, num |-> num, den |-> den]

RatioInf == [inf |-> TRUE, num |-> 0, den |-> 1]

\* a <= b on such values
RatioLeq(a, b) ==
  \/ b.inf
  \/ ~a.inf /\ a.num * b.den <= b.num * a.den

\* std::abs
Abs(x) == IF x < 0 THEN -x ELSE x

\* BPTree::gap on finite or infinite bounds; a bound smaller in absolute
\* value than 1e-10 is 0 in units of 1e-6
gap(global_lower, global_upper) ==
  IF global_upper = INF \/ global_lower = NEG_INF THEN RatioInf
  ELSE IF global_upper = 0
    THEN (IF global_lower = 0 THEN Ratio(0, 1) ELSE RatioInf)
  ELSE Ratio(global_upper - global_lower, Abs(global_upper))

\* --------------------------------------------------------------- selectors
\* A selector holds node handles; a handle is the id of a registered node and
\* the node itself is read through the id -> node map ns at the time of each
\* call.  A std::priority_queue is modelled by the handles it holds: with the
\* keys of the held nodes unchanged since they were pushed, top() is an element
\* that the comparator ranks below no other one, and which of several such
\* elements it is depends on the heap algorithm, so it is left open.

\* the handles of q whose node can be explored, in the order of q
Explorable(q, ns) == SelectSeq(q, LAMBDA id : can_be_explored(ns[id]))

RemoveAt(q, i) == SubSeq(q, 1, i - 1) \o SubSeq(q, i + 1, Len(q))

\* CompareByBound turned into a max-heap order
CompareByBound_reversed(a, b) == a.lower_bound < b.lower_bound

\* BestFirstSelector::CompareByBound
CompareByBound(a, b) == a.lower_bound > b.lower_bound

\* CompareByDepth without the tiebreaker
CompareByDepth_no_tiebreak(a, b) == a.depth < b.depth

\* DepthFirstSelector::CompareByDepth
CompareByDepth(a, b) ==
  IF a.depth # b.depth THEN a.depth < b.depth
  ELSE a.lower_bound > b.lower_bound

\* the Compare template argument of a std::priority_queue, named by the
\* selector kind that declares it
Compare(kind, a, b) ==
  IF kind = "best_first" THEN CompareByBound(a, b) ELSE CompareByDepth(a, b)

\* the positions std::priority_queue::top may return
TopPositions(q, ns, kind) ==
  {i \in 1..Len(q) : \A j \in 1..Len(q) : ~Compare(kind, ns[q[i]], ns[q[j]])}

\* BestFirstSelector() and DepthFirstSelector()
QueueSelector == [queue_ |-> <<>>]

\* add_node that forgets the handles pushed before
queue_add_node_replaces(s, ns, node) ==
  IF node # INVALID_ID /\ can_be_explored(ns[node])
    THEN [s EXCEPT !.queue_ = <<node>>]
    ELSE s

\* BestFirstSelector::add_node, DepthFirstSelector::add_node
queue_add_node(s, ns, node) ==
  IF node # INVALID_ID /\ can_be_explored(ns[node])
    THEN [s EXCEPT !.queue_ = Append(@, node)]
    ELSE s

\* prune that drops no handle
queue_prune_keeps_all(s, ns) == [s |-> s, removed |-> 0]

\* BestFirstSelector::prune, DepthFirstSelector::prune: the selector
\* afterwards and the returned count
queue_prune(s, ns) ==
  LET valid == Explorable(s.queue_, ns)
  IN [s |-> [s EXCEPT !.queue_ = valid],
      removed |-> Len(s.queue_) - Len(valid)]

\* select_next of a queue selector: the possible outcomes, each the selector
\* afterwards and the returned node (INVALID_ID for nullptr)
queue_select_next(s, ns, kind) ==
  LET p == queue_prune(s, ns).s
  IN IF p.queue_ = <<>>
       THEN {[s |-> p, node |-> INVALID_ID]}
       ELSE {[s |-> [p EXCEPT !.queue_ = RemoveAt(@, i)], node |-> p.queue_[i]] :
               i \in TopPositions(p.queue_, ns, kind)}

\* peek_next of a queue selector: the nodes it may return
queue_peek_next(s, ns, kind) ==
  IF s.queue_ = <<>> THEN {INVALID_ID}
  ELSE {s.queue_[i] : i \in TopPositions(s.queue_, ns, kind)}

\* select_next that pops the queue as it stands: with keys that changed since
\* the pushes any held handle may be at the front
BestFirst_select_next_no_rebuild(s, ns) ==
  IF s.queue_ = <<>>
    THEN {[s |-> s, node |-> INVALID_ID]}
    ELSE {[s |-> [s EXCEPT !.queue_ = RemoveAt(@, i)], node |-> s.queue_[i]] :
            i \in 1..Len(s.queue_)}

\* BestFirstSelector::select_next
BestFirst_select_next(s, ns) == queue_select_next(s, ns, "best_first")

\* BestFirstSelector::peek_next
BestFirst_peek_next(s, ns) == queue_peek_next(s, ns, "best_first")

\* BestFirstSelector::best_bound: the lower bound of the top of the queue
BestFirst_best_bound(s, ns) ==
  IF s.queue_ = <<>> THEN INF
  ELSE LET i == CHOOSE i \in TopPositions(s.queue_, ns, "best_first") : TRUE
       IN ns[s.queue_[i]].lower_bound

\* DepthFirstSelector::select_next
DepthFirst_select_next(s, ns) == queue_select_next(s, ns, "depth_first")

\* DepthFirstSelector::peek_next
DepthFirst_peek_next(s, ns) == queue_peek_next(s, ns, "depth_first")

RECURSIVE min_lower_bound(_, _, _)
\* the scans of DepthFirstSelector::best_bound and
\* BestEstimateSelector::best_bound over the handles not yet visited
min_lower_bound(best, q, ns) ==
  IF q = <<>> THEN best
  ELSE min_lower_bound(Min(best, ns[Head(q)].lower_bound), Tail(q), ns)

\* DepthFirstSelector::best_bound
DepthFirst_best_bound(s, ns) ==
  IF s.queue_ = <<>> THEN INF ELSE min_lower_bound(INF, s.queue_, ns)

\* 1.0 in units of 1e-6: a depth counts in whole units
Unit == 1000000

\* the default estimate_weight of BestEstimateSelector, 0.5, as num / den
DefaultEstimateWeight == [num |-> 1, den |-> 2]

\* BestEstimateSelector(estimate_weight)
BestEstimateSelector(estimate_weight) ==
  [nodes_ |-> <<>>, estimate_weight_ |-> estimate_weight,
   global_upper_bound_ |-> INF, max_depth_ |-> 1]

\* BestEstimateSelector::add_node
BestEstimate_add_node(s, ns, node) ==
  IF node # INVALID_ID /\ can_be_explored(ns[node])
    THEN [s EXCEPT !.nodes_ = Append(@, node),
                   !.max_depth_ = Max(@, ns[node].depth)]
    ELSE s

\* BestEstimateSelector::prune: the selector afterwards and the returned count
BestEstimate_prune(s, ns) ==
  LET kept == Explorable(s.nodes_, ns)
  IN [s |-> [s EXCEPT !.nodes_ = kept],
      removed |-> Len(s.nodes_) - Len(kept)]

\* An IEEE double as estimate produces it: a finite value num over a
\* denominator that is the same for every node of one call, an infinity, or
\* NaN.
Finite(num) == [cls |-> "finite", num |-> num]

PosInf == [cls |-> "pos_inf", num |-> 0]

NegInf == [cls |-> "neg_inf", num |-> 0]

NaN == [cls |-> "nan", num |-> 0]

\* the largest element of a non-empty set of integers
SetMax(S) == CHOOSE x \in S : \A y \in S : y <= x

\* a < b on doubles; false as soon as one side is NaN
DoubleLess(a, b) ==
  /\ a.cls # "nan"
  /\ b.cls # "nan"
  /\ \/ a.cls = "neg_inf" /\ b.cls # "neg_inf"
     \/ a.cls # "pos_inf" /\ b.cls = "pos_inf"
     \/ a.cls = "finite" /\ b.cls = "finite" /\ a.num < b.num

\* the estimate of the class comment, with depth / max_depth in the place of
\* 1 - depth / max_depth
estimate_as_documented(s, n) ==
  LET lb == n.lower_bound
      w == s.estimate_weight_
      ub == s.global_upper_bound_
      max_depth == Max(1, s.max_depth_)
  IN IF ub = INF
       THEN IF lb = INF THEN PosInf
            ELSE IF lb = NEG_INF THEN NegInf
            ELSE Finite(lb * w.den - w.num * n.depth * Unit)
     ELSE IF lb = INF \/ lb = NEG_INF THEN NaN
     ELSE IF ub = NEG_INF
       THEN (IF w.num * n.depth = 0 THEN NaN ELSE NegInf)
     ELSE Finite(lb * w.den * max_depth + w.num * n.depth * (ub - lb))

\* BestEstimateSelector::estimate, times estimate_weight_.den without an
\* upper bound and times estimate_weight_.den * max(1, max_depth_) with one
estimate(s, n) ==
  LET lb == n.lower_bound
      w == s.estimate_weight_
      ub == s.global_upper_bound_
      max_depth == Max(1, s.max_depth_)
  IN IF ub = INF
       THEN IF lb = INF THEN PosInf
            ELSE IF lb = NEG_INF THEN NegInf
            ELSE Finite(lb * w.den - w.num * n.depth * Unit)
     ELSE IF lb = INF \/ lb = NEG_INF THEN NaN
     ELSE IF ub = NEG_INF
       THEN (IF w.num * (max_depth - n.depth) = 0 THEN NaN ELSE NegInf)
     ELSE Finite(lb * w.den * max_depth
                   + w.num * (max_depth - n.depth) * (ub - lb))

RECURSIVE min_element(_, _, _, _, _)
\* std::min_element over the estimates: position i is looked at next, the
\* smallest so far is at position smallest
min_element(s, ns, q, i, smallest) ==
  IF i > Len(q) THEN smallest
  ELSE IF DoubleLess(estimate(s, ns[q[i]]), estimate(s, ns[q[smallest]]))
    THEN min_element(s, ns, q, i + 1, i)
    ELSE min_element(s, ns, q, i + 1, smallest)

\* BestEstimateSelector::select_next: the outcome, as a one-element set
BestEstimate_select_next(s, ns) ==
  LET p == BestEstimate_prune(s, ns).s
  IN IF p.nodes_ = <<>>
       THEN {[s |-> p, node |-> INVALID_ID]}
       ELSE LET best_it == min_element(p, ns, p.nodes_, 2, 1)
            IN {[s |-> [p EXCEPT !.nodes_ = RemoveAt(@, best_it)],
                 node |-> p.nodes_[best_it]]}

\* BestEstimateSelector::peek_next
BestEstimate_peek_next(s, ns) ==
  IF s.nodes_ = <<>> THEN {INVALID_ID}
  ELSE {s.nodes_[min_element(s, ns, s.nodes_, 2, 1)]}

\* BestEstimateSelector::best_bound
BestEstimate_best_bound(s, ns) ==
  IF s.nodes_ = <<>> THEN INF ELSE min_lower_bound(INF, s.nodes_, ns)

\* BestEstimateSelector::on_bound_update
BestEstimate_on_bound_update(s, new_bound) ==
  [s EXCEPT !.global_upper_bound_ = new_bound]

\* HybridSelector(dive_frequency, dive_depth)
HybridSelector(dive_frequency, dive_depth) ==
  [best_first_ |-> QueueSelector, depth_first_ |-> QueueSelector,
   dive_frequency_ |-> dive_frequency, dive_depth_ |-> dive_depth,
   nodes_since_dive_ |-> 0, current_dive_depth_ |-> 0, diving_ |-> FALSE]

\* HybridSelector::add_node
Hybrid_add_node(s, ns, node) ==
  IF node # INVALID_ID /\ can_be_explored(ns[node])
    THEN [s EXCEPT !.best_first_ = queue_add_node(@, ns, node),
                   !.depth_first_ = queue_add_node(@, ns, node)]
    ELSE s

\* the tail of HybridSelector::select_next, serving from best_first_
Hybrid_cruise(s, ns) ==
  LET c == [s EXCEPT !.nodes_since_dive_ = @ + 1,
                     !.depth_first_ = queue_prune(@, ns).s]
  IN {[s |-> [c EXCEPT !.best_first_ = r.s], node |-> r.node] :
        r \in BestFirst_select_next(c.best_first_, ns)}

\* the diving branch that goes back to cruising without restarting
\* nodes_since_dive_
Hybrid_dive_keeps_count(s, ns, r) ==
  IF r.node # INVALID_ID
    THEN LET depth == s.current_dive_depth_ + 1
         IN {[s |-> [s EXCEPT
                       !.depth_first_ = r.s,
                       !.current_dive_depth_ = depth,
                       !.diving_ = IF depth >= s.dive_depth_ THEN FALSE ELSE @,
                       !.best_first_ = queue_prune(@, ns).s],
              node |-> r.node]}
    ELSE Hybrid_cruise([s EXCEPT !.depth_first_ = r.s, !.diving_ = FALSE], ns)

\* the diving branch of HybridSelector::select_next once depth_first_ has
\* answered r
Hybrid_dive(s, ns, r) ==
  IF r.node # INVALID_ID
    THEN LET depth == s.current_dive_depth_ + 1
             done == depth >= s.dive_depth_
         IN {[s |-> [s EXCEPT
                       !.depth_first_ = r.s,
                       !.current_dive_depth_ = depth,
                       !.diving_ = IF done THEN FALSE ELSE @,
                       !.nodes_since_dive_ = IF done THEN 0 ELSE @,
                       !.best_first_ = queue_prune(@, ns).s],
              node |-> r.node]}
    ELSE Hybrid_cruise([s EXCEPT !.depth_first_ = r.s, !.diving_ = FALSE], ns)

\* HybridSelector::select_next: the possible outcomes
Hybrid_select_next(s, ns) ==
  LET d == IF ~s.diving_ /\ s.nodes_since_dive_ >= s.dive_frequency_
             THEN [s EXCEPT !.diving_ = TRUE, !.current_dive_depth_ = 0]
             ELSE s
  IN IF d.diving_
       THEN UNION {Hybrid_dive(d, ns, r) :
                     r \in DepthFirst_select_next(d.depth_first_, ns)}
       ELSE Hybrid_cruise(d, ns)

\* HybridSelector::peek_next
Hybrid_peek_next(s, ns) ==
  IF s.diving_ THEN DepthFirst_peek_next(s.depth_first_, ns)
  ELSE BestFirst_peek_next(s.best_first_, ns)

\* HybridSelector::prune: the selector afterwards and the returned count
Hybrid_prune(s, ns) ==
  LET r1 == queue_prune(s.best_first_, ns)
      r2 == queue_prune(s.depth_first_, ns)
  IN [s |-> [s EXCEPT !.best_first_ = r1.s, !.depth_first_ = r2.s],
      removed |-> Max(r1.removed, r2.removed)]

\* create_selector, and HybridSelector constructed with explicit parameters
Selectors ==
  {[kind |-> "best_first", s |-> QueueSelector],
   [kind |-> "depth_first", s |-> QueueSelector],
   [kind |-> "best_estimate", s |-> BestEstimateSelector(DefaultEstimateWeight)]}
    \cup {[kind |-> "hybrid", s |-> HybridSelector(f, d)] :
            f \in DiveFrequencies, d \in DiveDepths}

\* NodeSelector::add_node
add_node(sel, ns, node) ==
  [sel EXCEPT !.s =
     CASE sel.kind = "best_first" -> queue_add_node(@, ns, node)
       [] sel.kind = "depth_first" -> queue_add_node(@, ns, node)
       [] sel.kind = "best_estimate" -> BestEstimate_add_node(@, ns, node)
       [] sel.kind = "hybrid" -> Hybrid_add_node(@, ns, node)]

RECURSIVE add_nodes(_, _, _)
\* NodeSelector::add_nodes, HybridSelector::add_nodes
add_nodes(sel, ns, nodes) ==
  IF nodes = <<>> THEN sel
  ELSE add_nodes(add_node(sel, ns, Head(nodes)), ns, Tail(nodes))

\* NodeSelector::select_next: the possible outcomes, each the selector
\* afterwards and the returned node (INVALID_ID for nullptr)
select_next(sel, ns) ==
  LET outcomes ==
        CASE sel.kind = "best_first" -> BestFirst_select_next(sel.s, ns)
          [] sel.kind = "depth_first" -> DepthFirst_select_next(sel.s, ns)
          [] sel.kind = "best_estimate" -> BestEstimate_select_next(sel.s, ns)
          [] sel.kind = "hybrid" -> Hybrid_select_next(sel.s, ns)
  IN {[sel |-> [sel EXCEPT !.s = r.s], node |-> r.node] : r \in outcomes}

\* NodeSelector::peek_next: the nodes it may return
peek_next(sel, ns) ==
  CASE sel.kind = "best_first" -> BestFirst_peek_next(sel.s, ns)
    [] sel.kind = "depth_first" -> DepthFirst_peek_next(sel.s, ns)
    [] sel.kind = "best_estimate" -> BestEstimate_peek_next(sel.s, ns)
    [] sel.kind = "hybrid" -> Hybrid_peek_next(sel.s, ns)

\* NodeSelector::empty
empty(sel) ==
  CASE sel.kind = "best_first" -> sel.s.queue_ = <<>>
    [] sel.kind = "depth_first" -> sel.s.queue_ = <<>>
    [] sel.kind = "best_estimate" -> sel.s.nodes_ = <<>>
    [] sel.kind = "hybrid" -> sel.s.best_first_.queue_ = <<>>

\* NodeSelector::best_bound
best_bound(sel, ns) ==
  CASE sel.kind = "best_first" -> BestFirst_best_bound(sel.s, ns)
    [] sel.kind = "depth_first" -> DepthFirst_best_bound(sel.s, ns)
    [] sel.kind = "best_estimate" -> BestEstimate_best_bound(sel.s, ns)
    [] sel.kind = "hybrid" -> BestFirst_best_bound(sel.s.best_first_, ns)

\* NodeSelector::prune: the selector afterwards and the returned count
prune(sel, ns) ==
  LET r == CASE sel.kind = "best_first" -> queue_prune(sel.s, ns)
             [] sel.kind = "depth_first" -> queue_prune(sel.s, ns)
             [] sel.kind = "best_estimate" -> BestEstimate_prune(sel.s, ns)
             [] sel.kind = "hybrid" -> Hybrid_prune(sel.s, ns)
  IN [sel |-> [sel EXCEPT !.s = r.s], removed |-> r.removed]

\* NodeSelector::on_bound_update: a no-op unless the class overrides it
on_bound_update(sel, new_bound) ==
  IF sel.kind = "best_estimate"
    THEN [sel EXCEPT !.s = BestEstimate_on_bound_update(@, new_bound)]
    ELSE sel

\* the handles a selector holds, in any of its stores
Held(sel) ==
  LET Range(q) == {q[i] : i \in 1..Len(q)}
  IN CASE sel.kind = "best_first" -> Range(sel.s.queue_)
       [] sel.kind = "depth_first" -> Range(sel.s.queue_)
       [] sel.kind = "best_estimate" -> Range(sel.s.nodes_)
       [] sel.kind = "hybrid" -> Range(sel.s.best_first_.queue_)
                                   \cup Range(sel.s.depth_first_.queue_)

\* ---------------------------------------------------------------- NodePool
\* A chunk is named by the address std::make_unique<T[]> returned for it, and a
\* slot (the T* that allocate returns) by its chunk and its index in the chunk.

\* NodePool::allocate_chunk that leaves next_in_chunk_ where it was
allocate_chunk_keeps_position(p, address) ==
  [p EXCEPT !.chunks_ = Append(@, address)]

\* NodePool::allocate_chunk, the new chunk being placed at address
allocate_chunk(p, address) ==
  [p EXCEPT !.chunks_ = Append(@, address), !.next_in_chunk_ = 0]

\* NodePool::NodePool(chunk_size), its first chunk being placed at address
NodePool(chunk_size, address) ==
  allocate_chunk([chunk_size_ |-> chunk_size, next_in_chunk_ |-> 0,
                  total_allocated_ |-> 0, chunks_ |-> <<>>], address)

\* NodePool::allocate: the pool afterwards and the slot returned; address is
\* where a new chunk is placed when one is needed
NodePool_allocate(p, address) ==
  LET q == IF p.next_in_chunk_ >= p.chunk_size_
             THEN allocate_chunk(p, address) ELSE p
  IN [p |-> [q EXCEPT !.next_in_chunk_ = @ + 1, !.total_allocated_ = @ + 1],
      slot |-> [chunk |-> q.chunks_[Len(q.chunks_)], index |-> q.next_in_chunk_]]

\* NodePool::size
NodePool_size(p) == p.total_allocated_

\* NodePool::num_chunks
NodePool_num_chunks(p) == Len(p.chunks_)

\* NodePool::clear, the fresh chunk being placed at address
NodePool_clear(p, address) ==
  allocate_chunk([p EXCEPT !.chunks_ = <<>>, !.next_in_chunk_ = 0,
                           !.total_allocated_ = 0], address)

\* ----------------------------------------------------------------- actions

NoCall ==
  [op |-> "new", node |-> INVALID_ID, decisions |-> <<>>, status |-> "",
   value |-> 0, flag |-> FALSE, ids |-> <<>>, prev_node |-> INVALID_ID,
   held_before |-> {},
   ret_nodes |-> <<>>, ret_count |-> 0, ret_flag |-> FALSE]

SetTree(t) ==
  /\ nodes_' = t.nodes
  /\ next_id_' = t.next_id
  /\ stats_' = t.stats

\* one more call on the tree, a node or the selector
Tick ==
  /\ ops < budget
  /\ ops' = ops + 1
  /\ UNCHANGED <<budget, minimize_, pool, handed>>

\* a call on the tree or on a node: the selector is not involved
Step == Tick /\ UNCHANGED <<selector_, unreturned, hist>>

TerminalStatus ==
  {"BRANCHED", "PRUNED_BOUND", "PRUNED_INFEASIBLE", "INTEGER", "FATHOMED"}

\* The calls the driver and the external solver are entitled to make: a node
\* is mutated, branched or marked only while it is Pending or Processing, and
\* mark_processed moves it forward along the status machine (from Pending to
\* Processing, or to a terminal status).
MayMutate(node) == ~is_processed(nodes_[node])

MayMark(node, new_status) ==
  /\ ~is_processed(nodes_[node])
  /\ \/ new_status \in TerminalStatus
     \/ nodes_[node].status = "PENDING" /\ new_status = "PROCESSING"

Contract(allowed) == in_contract' = (in_contract /\ allowed)

\* BPTree::BPTree
Construct(minimize) ==
  /\ minimize_ = minimize
  /\ nodes_ = (0 :> BPNode_root)
  /\ next_id_ = 1
  /\ stats_ = [TreeStats EXCEPT !.nodes_created = 1, !.nodes_open = 1]
  /\ global_lower_bound_ = NEG_INF
  /\ global_upper_bound_ = INF
  /\ incumbent_ = INVALID_ID
  /\ last = NoCall
  /\ ops = 0
  /\ in_contract = TRUE

\* nothing has been asked of the selector yet
NoHistory ==
  /\ unreturned = [n \in 0..(MaxNodes - 1) |-> 0]
  /\ hist = [selects |-> 0, returned |-> {}, finite_reported |-> FALSE,
             last_bound |-> INF, max_depth_seen |-> 0]

\* a pool of the default chunk size that nobody allocates from
IdlePool ==
  /\ pool = NodePool(DEFAULT_CHUNK_SIZE, 1)
  /\ handed = <<>>

\* the selector create_selector falls back to, holding nothing
DefaultSelector ==
  /\ selector_ = [kind |-> "best_first", s |-> QueueSelector]
  /\ NoHistory
  /\ IdlePool

Init == Construct(TRUE) /\ DefaultSelector /\ budget = MaxOps

InitBounds == Construct(TRUE) /\ DefaultSelector /\ budget = MaxOpsBounds

InitGap == Construct(TRUE) /\ DefaultSelector /\ budget = MaxOpsGap

\* A tree of either sense.
InitSense ==
  \E minimize \in BOOLEAN :
    Construct(minimize) /\ DefaultSelector /\ budget = MaxOpsBounds

\* A tree and one of the two selectors that order a priority queue.
InitOrder ==
  /\ Construct(TRUE)
  /\ selector_ \in {sel \in Selectors : sel.kind \in {"best_first", "depth_first"}}
  /\ NoHistory
  /\ IdlePool
  /\ budget = MaxOpsBounds

\* A tree and a selector of any of the four classes.
InitSelector ==
  /\ Construct(TRUE)
  /\ selector_ \in Selectors
  /\ NoHistory
  /\ IdlePool
  /\ budget = MaxOpsBounds

\* A tree and a selector of any of the four classes, for a longer run.
InitSweep ==
  /\ Construct(TRUE)
  /\ selector_ \in Selectors
  /\ NoHistory
  /\ IdlePool
  /\ budget = MaxOpsDrive

\* A tree and a selector of any of the four classes, for a driver's loop.
InitDrain ==
  /\ Construct(TRUE)
  /\ selector_ \in Selectors
  /\ NoHistory
  /\ IdlePool
  /\ budget = MaxOpsLoop

\* A tree and a BestEstimateSelector of the default weight.
InitEstimate ==
  /\ Construct(TRUE)
  /\ selector_ = [kind |-> "best_estimate",
                  s |-> BestEstimateSelector(DefaultEstimateWeight)]
  /\ NoHistory
  /\ IdlePool
  /\ budget = MaxOpsEstimate

\* A NodePool of some chunk size, its first chunk placed anywhere.
InitPool ==
  /\ Construct(TRUE)
  /\ selector_ = [kind |-> "best_first", s |-> QueueSelector]
  /\ NoHistory
  /\ \E chunk_size \in ChunkSizes, address \in ChunkAddresses :
       pool = NodePool(chunk_size, address)
  /\ handed = <<>>
  /\ budget = MaxOpsPool

\* A tree and a BestFirstSelector.
InitRestamp ==
  /\ Construct(TRUE)
  /\ selector_ = [kind |-> "best_first", s |-> QueueSelector]
  /\ NoHistory
  /\ IdlePool
  /\ budget = MaxOpsDrive

\* A tree and a fresh HybridSelector.
InitHybrid ==
  /\ Construct(TRUE)
  /\ selector_ \in {sel \in Selectors : sel.kind = "hybrid"}
  /\ NoHistory
  /\ IdlePool
  /\ budget = MaxOpsLoop

CreateChild(parent, decision) ==
  /\ Step
  /\ Contract(MayMutate(parent))
  /\ next_id_ < MaxNodes
  /\ LET r == create_child(Tree, parent, decision)
     IN /\ SetTree(r.t)
        /\ last' = [NoCall EXCEPT !.op = "create_child", !.node = parent,
                                  !.decisions = <<decision>>,
                                  !.ret_nodes = <<r.child>>]
  /\ UNCHANGED <<global_lower_bound_, global_upper_bound_, incumbent_>>

CreateChildren(parent, decisions) ==
  /\ Step
  /\ Contract(MayMutate(parent))
  /\ next_id_ + Len(decisions) <= MaxNodes
  /\ LET r == create_children(Tree, parent, decisions)
     IN /\ SetTree(r.t)
        /\ last' = [NoCall EXCEPT !.op = "create_children", !.node = parent,
                                  !.decisions = decisions,
                                  !.ret_nodes = r.children]
  /\ UNCHANGED <<global_lower_bound_, global_upper_bound_, incumbent_>>

MarkProcessed(node, new_status) ==
  /\ Step
  /\ Contract(MayMark(node, new_status))
  /\ SetTree(mark_processed(Tree, node, new_status))
  /\ last' = [NoCall EXCEPT !.op = "mark_processed", !.node = node,
                            !.status = new_status]
  /\ UNCHANGED <<global_lower_bound_, global_upper_bound_, incumbent_>>

PruneByBound ==
  /\ Step
  /\ Contract(TRUE)
  /\ LET r == prune_by_bound(Tree, global_upper_bound_)
     IN /\ SetTree(r.t)
        /\ last' = [NoCall EXCEPT !.op = "prune_by_bound",
                                  !.ret_count = r.pruned]
  /\ UNCHANGED <<global_lower_bound_, global_upper_bound_, incumbent_>>

\* BPNode::try_prune_by_bound called on a node directly
TryPruneByBound(node, global_upper) ==
  /\ Step
  /\ Contract(TRUE)
  /\ LET r == try_prune_by_bound(nodes_[node], global_upper)
     IN /\ nodes_' = [nodes_ EXCEPT ![node] = r.node]
        /\ last' = [NoCall EXCEPT !.op = "try_prune_by_bound", !.node = node,
                                  !.value = global_upper, !.ret_flag = r.ret]
  /\ UNCHANGED <<next_id_, stats_, global_lower_bound_, global_upper_bound_,
                 incumbent_>>

AddLocalDecision(node, decision) ==
  /\ Step
  /\ Contract(MayMutate(node))
  /\ nodes_' = [nodes_ EXCEPT ![node] = add_local_decision(@, decision)]
  /\ last' = [NoCall EXCEPT !.op = "add_local_decision", !.node = node,
                            !.decisions = <<decision>>]
  /\ UNCHANGED <<next_id_, stats_, global_lower_bound_, global_upper_bound_,
                 incumbent_>>

\* BPNode::set_lower_bound
SetLowerBound(node, lb) ==
  /\ Step
  /\ Contract(MayMutate(node))
  /\ nodes_' = [nodes_ EXCEPT ![node].lower_bound = lb]
  /\ last' = [NoCall EXCEPT !.op = "set_lower_bound", !.node = node,
                            !.value = lb]
  /\ UNCHANGED <<next_id_, stats_, global_lower_bound_, global_upper_bound_,
                 incumbent_>>

\* BPNode::set_upper_bound
SetUpperBound(node, ub) ==
  /\ Step
  /\ Contract(MayMutate(node))
  /\ nodes_' = [nodes_ EXCEPT ![node].upper_bound = ub]
  /\ last' = [NoCall EXCEPT !.op = "set_upper_bound", !.node = node,
                            !.value = ub]
  /\ UNCHANGED <<next_id_, stats_, global_lower_bound_, global_upper_bound_,
                 incumbent_>>

\* BPTree::set_global_upper_bound
SetGlobalUpperBound(ub) ==
  /\ Step
  /\ Contract(TRUE)
  /\ global_upper_bound_' = ub
  /\ last' = [NoCall EXCEPT !.op = "set_global_upper_bound", !.value = ub]
  /\ UNCHANGED <<nodes_, next_id_, stats_, global_lower_bound_, incumbent_>>

\* BPTree::set_global_lower_bound.  The driver only raises the global lower
\* bound, and never above the global upper bound.
SetGlobalLowerBound(lb) ==
  /\ Step
  /\ Contract(global_lower_bound_ <= lb /\ lb <= global_upper_bound_)
  /\ global_lower_bound_' = lb
  /\ last' = [NoCall EXCEPT !.op = "set_global_lower_bound", !.value = lb]
  /\ UNCHANGED <<nodes_, next_id_, stats_, global_upper_bound_, incumbent_>>

\* BPNode::set_lp_value.  The solver stamps a node before the driver hands it
\* to set_incumbent, never afterwards.
SetLpValue(node, val) ==
  /\ Step
  /\ Contract(MayMutate(node) /\ node # incumbent_)
  /\ nodes_' = [nodes_ EXCEPT ![node].lp_value = val]
  /\ last' = [NoCall EXCEPT !.op = "set_lp_value", !.node = node,
                            !.value = val]
  /\ UNCHANGED <<next_id_, stats_, global_lower_bound_, global_upper_bound_,
                 incumbent_>>

\* BPNode::set_is_integer
SetIsInteger(node, is_int) ==
  /\ Step
  /\ Contract(MayMutate(node) /\ node # incumbent_)
  /\ nodes_' = [nodes_ EXCEPT ![node].is_integer = is_int]
  /\ last' = [NoCall EXCEPT !.op = "set_is_integer", !.node = node,
                            !.flag = is_int]
  /\ UNCHANGED <<next_id_, stats_, global_lower_bound_, global_upper_bound_,
                 incumbent_>>

UpdateBounds(node) ==
  /\ Step
  /\ Contract(TRUE)
  /\ LET r == update_bounds(Tree, global_upper_bound_, node)
     IN /\ SetTree(r.t)
        /\ global_upper_bound_' = r.global_upper_bound
        /\ last' = [NoCall EXCEPT !.op = "update_bounds", !.node = node,
                                  !.ret_flag = r.improved]
  /\ UNCHANGED <<global_lower_bound_, incumbent_>>

\* The caller is responsible for handing set_incumbent an integer node.
SetIncumbent(node) ==
  /\ Step
  /\ Contract(node = INVALID_ID \/ nodes_[node].is_integer)
  /\ LET r == set_incumbent(Tree, global_upper_bound_, node)
     IN /\ SetTree(r.t)
        /\ global_upper_bound_' = r.global_upper_bound
        /\ incumbent_' = r.incumbent
        /\ last' = [NoCall EXCEPT !.op = "set_incumbent", !.node = node]
  /\ UNCHANGED global_lower_bound_

ComputeLowerBound(open_node_ids) ==
  /\ Step
  /\ Contract(TRUE)
  /\ last' = [NoCall EXCEPT
                !.op = "compute_lower_bound", !.ids = open_node_ids,
                !.value = compute_lower_bound(Tree, global_upper_bound_,
                                              open_node_ids)]
  /\ UNCHANGED <<nodes_, next_id_, stats_, global_lower_bound_,
                 global_upper_bound_, incumbent_>>

GetPathToRoot(target_id) ==
  /\ Step
  /\ Contract(TRUE)
  /\ last' = [NoCall EXCEPT
                !.op = "get_path_to_root", !.node = target_id,
                !.ret_nodes = get_path_to_root(Tree, target_id)]
  /\ UNCHANGED <<nodes_, next_id_, stats_, global_lower_bound_,
                 global_upper_bound_, incumbent_>>

TreeVars ==
  <<nodes_, next_id_, stats_, global_lower_bound_, global_upper_bound_,
    incumbent_>>

\* The driver adds a node to the selector once, while the node is explorable.
MayAdd(node) ==
  /\ node # INVALID_ID
  /\ can_be_explored(nodes_[node])
  /\ node \notin Held(selector_)

AddNode(node) ==
  /\ Tick
  /\ Contract(MayAdd(node))
  /\ selector_' = add_node(selector_, nodes_, node)
  /\ unreturned' =
       IF node # INVALID_ID /\ can_be_explored(nodes_[node])
         THEN [unreturned EXCEPT ![node] = @ + 1]
         ELSE unreturned
  /\ hist' =
       IF node # INVALID_ID /\ can_be_explored(nodes_[node])
         THEN [hist EXCEPT !.max_depth_seen = Max(@, nodes_[node].depth)]
         ELSE hist
  /\ last' = [NoCall EXCEPT !.op = "add_node", !.node = node]
  /\ UNCHANGED TreeVars

AddNodes(nodes) ==
  /\ Tick
  /\ Contract(/\ \A i \in 1..Len(nodes) : MayAdd(nodes[i])
              /\ \A i, j \in 1..Len(nodes) : nodes[i] = nodes[j] => i = j)
  /\ selector_' = add_nodes(selector_, nodes_, nodes)
  /\ unreturned' =
       [n \in DOMAIN unreturned |->
          unreturned[n]
            + Cardinality({i \in 1..Len(nodes) :
                             nodes[i] = n /\ can_be_explored(nodes_[n])})]
  /\ hist' =
       [hist EXCEPT !.max_depth_seen =
          SetMax({@} \cup {nodes_[nodes[i]].depth :
                             i \in {j \in 1..Len(nodes) :
                                      can_be_explored(nodes_[nodes[j]])}})]
  /\ last' = [NoCall EXCEPT !.op = "add_nodes", !.ids = nodes]
  /\ UNCHANGED TreeVars

\* select_next; last.held_before keeps the handles held before the call and
\* last.prev_node the node returned by the call before when that was a
\* select_next too
SelectNext ==
  /\ Tick
  /\ Contract(TRUE)
  /\ \E r \in select_next(selector_, nodes_) :
       /\ selector_' = r.sel
       /\ unreturned' =
            IF r.node # INVALID_ID /\ unreturned[r.node] > 0
              THEN [unreturned EXCEPT ![r.node] = @ - 1]
              ELSE unreturned
       /\ hist' = [hist EXCEPT !.selects = @ + 1,
                               !.returned = @ \cup ({r.node} \ {INVALID_ID})]
       /\ last' = [NoCall EXCEPT
                     !.op = "select_next", !.node = r.node,
                     !.held_before = Held(selector_),
                     !.prev_node = IF last.op = "select_next" THEN last.node
                                   ELSE INVALID_ID]
  /\ UNCHANGED TreeVars

\* prune; last.held_before keeps the handles held before the call
Prune ==
  /\ Tick
  /\ Contract(TRUE)
  /\ LET r == prune(selector_, nodes_)
     IN /\ selector_' = r.sel
        /\ last' = [NoCall EXCEPT !.op = "prune", !.ret_count = r.removed,
                                  !.held_before = Held(selector_)]
  /\ UNCHANGED <<unreturned, hist>>
  /\ UNCHANGED TreeVars

OnBoundUpdate(new_bound) ==
  /\ Tick
  /\ Contract(TRUE)
  /\ selector_' = on_bound_update(selector_, new_bound)
  /\ hist' = [hist EXCEPT !.last_bound = new_bound,
                          !.finite_reported = @ \/ new_bound # INF]
  /\ last' = [NoCall EXCEPT !.op = "on_bound_update", !.value = new_bound]
  /\ UNCHANGED unreturned
  /\ UNCHANGED TreeVars

PeekNext ==
  /\ Tick
  /\ Contract(TRUE)
  /\ \E node \in peek_next(selector_, nodes_) :
       last' = [NoCall EXCEPT !.op = "peek_next", !.node = node]
  /\ UNCHANGED <<selector_, unreturned, hist>>
  /\ UNCHANGED TreeVars

BestBound ==
  /\ Tick
  /\ Contract(TRUE)
  /\ last' = [NoCall EXCEPT !.op = "best_bound",
                            !.value = best_bound(selector_, nodes_)]
  /\ UNCHANGED <<selector_, unreturned, hist>>
  /\ UNCHANGED TreeVars

Next ==
  \/ \E p \in DOMAIN nodes_, d \in Decisions : CreateChild(p, d)
  \/ \E p \in DOMAIN nodes_, ds \in DecisionLists : CreateChildren(p, ds)
  \/ \E n \in DOMAIN nodes_, s \in NodeStatus : MarkProcessed(n, s)
  \/ PruneByBound
  \/ \E n \in DOMAIN nodes_, g \in GlobalBoundValues : TryPruneByBound(n, g)
  \/ \E n \in DOMAIN nodes_, d \in Decisions : AddLocalDecision(n, d)
  \/ \E n \in DOMAIN nodes_, v \in NodeBoundValues : SetLowerBound(n, v)
  \/ \E n \in DOMAIN nodes_, v \in GlobalBoundValues : SetUpperBound(n, v)
  \/ \E v \in GlobalBoundValues : SetGlobalUpperBound(v)

Spec == Init /\ [][Next]_vars

\* The calls that go through the BPTree, with the two setters that give
\* prune_by_bound something to decide on.
NextTree ==
  \/ \E p \in DOMAIN nodes_, d \in Decisions : CreateChild(p, d)
  \/ \E p \in DOMAIN nodes_, ds \in DecisionLists : CreateChildren(p, ds)
  \/ \E n \in DOMAIN nodes_, s \in NodeStatus : MarkProcessed(n, s)
  \/ PruneByBound
  \/ \E n \in DOMAIN nodes_, v \in NodeBoundValues : SetLowerBound(n, v)
  \/ \E v \in GlobalBoundValues : SetGlobalUpperBound(v)

SpecTree == Init /\ [][NextTree]_vars

\* Pruning and the lower bound: a tree is grown, the solver stamps lower
\* bounds, the driver moves nodes out of Pending, tightens the global upper
\* bound, prunes, and asks for the lower bound of a list of ids.
NextPrune ==
  \/ \E p \in DOMAIN nodes_ : CreateChild(p, "d1")
  \/ \E n \in DOMAIN nodes_, s \in {"PROCESSING", "FATHOMED"} :
       MarkProcessed(n, s)
  \/ \E n \in DOMAIN nodes_, v \in NodeBoundValues : SetLowerBound(n, v)
  \/ \E v \in GlobalBoundValues : SetGlobalUpperBound(v)
  \/ PruneByBound
  \/ \E ids \in IdLists : ComputeLowerBound(ids)

SpecPrune == InitBounds /\ [][NextPrune]_vars

\* The incumbent and the global bounds: the solver stamps lp_value and
\* is_integer, the driver updates the bounds and sets the incumbent.
NextIncumbent ==
  \/ \E p \in DOMAIN nodes_ : CreateChild(p, "d1")
  \/ \E n \in DOMAIN nodes_ : MarkProcessed(n, "INTEGER")
  \/ \E n \in DOMAIN nodes_, v \in NodeBoundValues : SetLpValue(n, v)
  \/ \E n \in DOMAIN nodes_, b \in BOOLEAN : SetIsInteger(n, b)
  \/ \E v \in GlobalBoundValues : SetGlobalUpperBound(v)
  \/ \E v \in GlobalLowerBoundValues : SetGlobalLowerBound(v)
  \/ \E n \in DOMAIN nodes_ : UpdateBounds(n)
  \/ \E n \in DOMAIN nodes_ \cup {INVALID_ID} : SetIncumbent(n)

SpecIncumbent == InitBounds /\ [][NextIncumbent]_vars

\* The same calls on a tree of either sense.
SpecSense == InitSense /\ [][NextIncumbent]_vars

\* The optimality gap: the solver stamps values on the root, the driver
\* updates the upper bound from them and raises the lower bound.
NextGap ==
  \/ \E n \in DOMAIN nodes_, v \in NodeBoundValues : SetLpValue(n, v)
  \/ \E n \in DOMAIN nodes_, b \in BOOLEAN : SetIsInteger(n, b)
  \/ \E n \in DOMAIN nodes_ : UpdateBounds(n)
  \/ \E v \in GlobalLowerBoundValues : SetGlobalLowerBound(v)

SpecGap == InitGap /\ [][NextGap]_vars

\* A driver with a selector: it grows the tree, the solver stamps lower
\* bounds on nodes the selector does not hold, the driver fathoms nodes, adds
\* nodes to the selector and asks it for the next one.
NextSelector ==
  \/ \E p \in DOMAIN nodes_ : CreateChild(p, "d1")
  \/ \E n \in DOMAIN nodes_ \ Held(selector_), v \in NodeBoundValues :
       SetLowerBound(n, v)
  \/ \E n \in DOMAIN nodes_ : MarkProcessed(n, "FATHOMED")
  \/ \E n \in DOMAIN nodes_ \cup {INVALID_ID} : AddNode(n)
  \/ SelectNext
  \/ PeekNext
  \/ BestBound

SpecSelector == InitSelector /\ [][NextSelector]_vars

\* The order in which a queue selector hands out its nodes: the driver
\* branches, the solver stamps lower bounds on nodes the selector does not
\* hold, the driver adds nodes in pairs and selects.
NextOrder ==
  \/ \E p \in DOMAIN nodes_ : CreateChild(p, "d1")
  \/ \E p \in DOMAIN nodes_ : CreateChildren(p, <<"d1", "d2">>)
  \/ \E n \in DOMAIN nodes_ \ Held(selector_), v \in NodeBoundValues :
       SetLowerBound(n, v)
  \/ \E nodes \in {p \in NodePairs : p[1] \in DOMAIN nodes_ /\ p[2] \in DOMAIN nodes_} :
       AddNodes(nodes)
  \/ SelectNext

SpecOrder == InitOrder /\ [][NextOrder]_vars

\* A driver that sweeps its selector: it branches, adds the nodes in pairs,
\* selects, fathoms nodes and calls prune.
NextSweep ==
  \/ \E p \in DOMAIN nodes_ : CreateChild(p, "d1")
  \/ \E nodes \in {p \in NodePairs : p[1] \in DOMAIN nodes_ /\ p[2] \in DOMAIN nodes_} :
       AddNodes(nodes)
  \/ SelectNext
  \/ \E n \in DOMAIN nodes_ : MarkProcessed(n, "FATHOMED")
  \/ Prune

SpecSweep == InitSweep /\ [][NextSweep]_vars

\* The driver has processed what it was given: no node that select_next
\* returned is still explorable.
Processed == \A n \in hist.returned : ~can_be_explored(nodes_[n])

\* The selector holds a node that can be explored.
HoldsExplorable == \E n \in Held(selector_) : can_be_explored(nodes_[n])

\* The selector has not been given a node yet.
Untouched == Held(selector_) = {} /\ hist.selects = 0

\* The driver's loop around a HybridSelector: a tree is grown, the solver
\* stamping a lower bound on a child once it is created, then the driver adds
\* explorable nodes, one or two at a time, asks for the next node while there
\* is one, and fathoms the node it was given before it turns to the selector
\* again.
NextHybrid ==
  \/ \E p \in DOMAIN nodes_ : Untouched /\ CreateChild(p, "d1")
  \/ \E v \in NodeBoundValues :
       /\ Untouched
       /\ last.op = "create_child"
       /\ SetLowerBound(last.ret_nodes[1], v)
  \/ \E n \in DOMAIN nodes_ : Processed /\ MayAdd(n) /\ AddNode(n)
  \/ \E nodes \in NodePairs :
       /\ Processed
       /\ \A i \in 1..2 : nodes[i] \in DOMAIN nodes_ /\ MayAdd(nodes[i])
       /\ AddNodes(nodes)
  \/ Processed /\ HoldsExplorable /\ SelectNext
  \/ \E n \in hist.returned : MayMark(n, "FATHOMED") /\ MarkProcessed(n, "FATHOMED")

SpecHybrid == InitHybrid /\ [][NextHybrid]_vars

\* The driver drains a selector: a tree is grown as above, the driver adds
\* explorable nodes, each once, until it asks for a node for the first time,
\* and from then on it only asks for the next node and fathoms the node it
\* was given before it asks again.
NextDrain ==
  \/ \E p \in DOMAIN nodes_ : Untouched /\ CreateChild(p, "d1")
  \/ \E v \in NodeBoundValues :
       /\ Untouched
       /\ last.op = "create_child"
       /\ SetLowerBound(last.ret_nodes[1], v)
  \/ \E n \in DOMAIN nodes_ : hist.selects = 0 /\ MayAdd(n) /\ AddNode(n)
  \/ \E nodes \in NodePairs :
       /\ hist.selects = 0
       /\ \A i \in 1..2 : nodes[i] \in DOMAIN nodes_ /\ MayAdd(nodes[i])
       /\ AddNodes(nodes)
  \/ Processed /\ SelectNext
  \/ \E n \in hist.returned : MayMark(n, "FATHOMED") /\ MarkProcessed(n, "FATHOMED")

SpecDrain == InitDrain /\ [][NextDrain]_vars

\* the addresses of the chunks a pool owns
LiveChunks(p) == {p.chunks_[i] : i \in 1..Len(p.chunks_)}

\* a call on the pool: the tree and the selector are not involved
PoolStep ==
  /\ ops < budget
  /\ ops' = ops + 1
  /\ UNCHANGED <<budget, minimize_, selector_, unreturned, hist, in_contract>>
  /\ UNCHANGED TreeVars

\* allocate; a chunk it adds is placed at an address no live chunk occupies
Allocate ==
  /\ PoolStep
  /\ pool.total_allocated_ < MaxAllocs
  /\ \E address \in ChunkAddresses \ LiveChunks(pool) :
       LET r == NodePool_allocate(pool, address)
       IN /\ pool' = r.p
          /\ handed' = Append(handed, r.slot)
  /\ last' = [NoCall EXCEPT !.op = "allocate"]

\* clear; the chunks are released before the fresh one is placed
Clear ==
  /\ PoolStep
  /\ \E address \in ChunkAddresses : pool' = NodePool_clear(pool, address)
  /\ handed' = <<>>
  /\ last' = [NoCall EXCEPT !.op = "clear"]

NextPool ==
  \/ Allocate
  \/ Clear

SpecPool == InitPool /\ [][NextPool]_vars

\* A BestFirstSelector whose nodes change under it: a tree is grown, the
\* driver adds explorable nodes, the solver stamps lower bounds on nodes the
\* selector holds, the driver fathoms held nodes and asks for the next node.
\* A stamp on a held node leaves the queue arranged for the old keys.  Every
\* select_next rebuilds it: prune pops every handle, in an order the old
\* arrangement decides, and pushes the explorable ones again, so the top
\* that select_next takes is a top under the present keys.
NextRestamp ==
  \/ \E p \in DOMAIN nodes_ : Untouched /\ CreateChild(p, "d1")
  \/ \E n \in DOMAIN nodes_ : MayAdd(n) /\ AddNode(n)
  \/ \E n \in Held(selector_), v \in NodeBoundValues :
       MayMutate(n) /\ SetLowerBound(n, v)
  \/ \E n \in Held(selector_) :
       MayMark(n, "FATHOMED") /\ MarkProcessed(n, "FATHOMED")
  \/ SelectNext

SpecRestamp == InitRestamp /\ [][NextRestamp]_vars

\* Upper bounds the driver reports to its selector: none yet, or a finite one.
ReportedBounds == GlobalBoundValues \cup {INF}

\* A driver with a BestEstimateSelector: a tree is grown, the solver stamping
\* a lower bound on the root or on a child once it is created, then the
\* driver adds explorable nodes, reports the upper bound when it changes,
\* fathoms nodes the selector holds, and asks for the next node.
NextEstimate ==
  \/ \E p \in DOMAIN nodes_ : Untouched /\ CreateChild(p, "d1")
  \/ \E v \in NodeBoundValues :
       /\ Untouched
       /\ \/ last.op = "new" /\ SetLowerBound(0, v)
          \/ last.op = "create_child" /\ SetLowerBound(last.ret_nodes[1], v)
  \/ \E n \in DOMAIN nodes_ : MayAdd(n) /\ AddNode(n)
  \/ \E new_bound \in ReportedBounds \ {hist.last_bound} :
       OnBoundUpdate(new_bound)
  \/ \E n \in Held(selector_) :
       MayMark(n, "FATHOMED") /\ MarkProcessed(n, "FATHOMED")
  \/ SelectNext

SpecEstimate == InitEstimate /\ [][NextEstimate]_vars

\* Paths: a tree is grown and paths are asked for, of registered ids and of
\* ids the tree does not hold.
NextPath ==
  \/ \E p \in DOMAIN nodes_, d \in Decisions : CreateChild(p, d)
  \/ \E p \in DOMAIN nodes_, ds \in DecisionLists : CreateChildren(p, ds)
  \/ \E id \in NodeIds : GetPathToRoot(id)

SpecPath == Init /\ [][NextPath]_vars

\* ------------------------------------------------------------------ claims

Registered == DOMAIN nodes_

WithStatus(s) == {n \in Registered : nodes_[n].status = s}

\* number of positions of seq that hold x
Occurrences(seq, x) == Cardinality({i \in 1..Len(seq) : seq[i] = x})

\* C1: in every state reachable through BPTree operations, stats.nodes_open
\* equals the number of registered nodes whose status is Pending.  Stated for
\* the behaviours in which every call kept to the driver's contract.
C1_NodesOpenIsPendingCount ==
  in_contract => stats_.nodes_open = Cardinality(WithStatus("PENDING"))

\* C2: in every reachable state, nodes_open plus the terminal-status counters
\* (nodes_branched, nodes_pruned_bound, nodes_pruned_infeasible,
\* nodes_integer) equals nodes_created.  Stated for the behaviours in which
\* every call kept to the driver's contract.
C2_OpenPlusTerminalIsCreated ==
  in_contract =>
    stats_.nodes_open + stats_.nodes_branched + stats_.nodes_pruned_bound
      + stats_.nodes_pruned_infeasible + stats_.nodes_integer
    = stats_.nodes_created

\* C3: in every reachable state each per-terminal-kind counter equals the
\* number of nodes currently in that status.  Stated for the behaviours in
\* which every call kept to the driver's contract.
C3_CountersArePartitionSizes ==
  in_contract =>
  /\ stats_.nodes_branched = Cardinality(WithStatus("BRANCHED"))
  /\ stats_.nodes_pruned_bound = Cardinality(WithStatus("PRUNED_BOUND"))
  /\ stats_.nodes_pruned_infeasible = Cardinality(WithStatus("PRUNED_INFEASIBLE"))
  /\ stats_.nodes_integer = Cardinality(WithStatus("INTEGER"))

\* C4: in every reachable state every non-root node N satisfies
\* inherited_decisions(N) = inherited_decisions(parent(N)) followed by
\* local_decisions(parent(N)).  Stated for the behaviours in which every call
\* kept to the driver's contract.
C4_InheritedIsParentsAll ==
  in_contract =>
    \A n \in Registered :
      nodes_[n].parent_id # INVALID_ID =>
        nodes_[n].inherited_decisions
          = nodes_[nodes_[n].parent_id].inherited_decisions
              \o nodes_[nodes_[n].parent_id].local_decisions

\* C5: once a node's status is Branched, PrunedBound, PrunedInfeasible,
\* Integer or Fathomed, no later operation changes its status or its children
\* list.  Stated for the behaviours in which every call kept to the driver's
\* contract.
C5_TerminalIsFrozen ==
  [][in_contract' =>
       \A n \in Registered :
         nodes_[n].status \in TerminalStatus =>
           /\ nodes_'[n].status = nodes_[n].status
           /\ nodes_'[n].children = nodes_[n].children]_vars

\* C6: every status change is a transition of the status machine.  Stated
\* here is what every transition of the machine has in common: a status
\* change starts from Pending or Processing, never ends in Pending, and ends
\* in Processing only from Pending (so no node returns to Pending or
\* Processing).  Stated for the behaviours in which every call kept to the
\* driver's contract.
C6_StatusOnlyMovesForward ==
  [][in_contract' =>
       \A n \in Registered :
         nodes_'[n].status # nodes_[n].status =>
           /\ nodes_[n].status \in {"PENDING", "PROCESSING"}
           /\ nodes_'[n].status # "PENDING"
           /\ nodes_'[n].status = "PROCESSING"
                => nodes_[n].status = "PENDING"]_vars

\* C7: exactly one node (id 0, the root) has parent_id = INVALID_ID and depth
\* 0; every other node C has a registered parent P with parent_id(C) = id(P),
\* depth(C) = depth(P) + 1 and id(C) occurring exactly once in P.children.
C7_ParentChildLinks ==
  /\ {n \in Registered : nodes_[n].parent_id = INVALID_ID} = {0}
  /\ {n \in Registered : nodes_[n].depth = 0} = {0}
  /\ nodes_[0].id = 0
  /\ \A c \in Registered \ {0} :
       LET p == nodes_[c].parent_id
       IN /\ p \in Registered
          /\ nodes_[p].id = p
          /\ nodes_[c].depth = nodes_[p].depth + 1
          /\ Occurrences(nodes_[p].children, nodes_[c].id) = 1

\* a parent with two children, or a grandchild, has been created
C7_Witness ==
  /\ Cardinality(Registered) = 3
  /\ \E c \in Registered : nodes_[c].depth = 2
  /\ last.op = "create_child"

\* C8: node ids are assigned 0, 1, 2, ... in creation order: no two registered
\* nodes share an id, a registered id is never given to a later node (also
\* when its node is pruned or otherwise terminal), and num_nodes() =
\* stats.nodes_created = the next id to be assigned in every reachable state.
C8_IdsSequentialNeverReused ==
  /\ [](/\ Registered = 0..(next_id_ - 1)
        /\ \A n \in Registered : nodes_[n].id = n
        /\ \A a, b \in Registered : nodes_[a].id = nodes_[b].id => a = b
        /\ Cardinality(Registered) = stats_.nodes_created
        /\ stats_.nodes_created = next_id_)
  /\ [][/\ \A n \in Registered :
             n \in DOMAIN nodes_' /\ nodes_'[n].id = nodes_[n].id
        /\ DOMAIN nodes_' \ Registered = next_id_..(next_id_' - 1)]_vars

\* a node is created after an older node was pruned
C8_Witness ==
  /\ last.op = "create_child"
  /\ \E n \in Registered :
       /\ n < last.ret_nodes[1]
       /\ nodes_[n].status = "PRUNED_BOUND"

\* C9: create_child(parent, d) returns a new Pending node whose
\* local_decisions is [d], whose inherited_decisions equals
\* parent.all_decisions() at the time of the call (its num_decisions is the
\* parent's plus one) and whose bounds are copies of the parent's; it
\* increments nodes_created and nodes_open by one, sets max_depth to
\* max(max_depth, child depth) and leaves the parent's status alone.
C9_CreateChildEffect ==
  [][last'.op = "create_child" =>
       LET p == last'.node
           c == last'.ret_nodes[1]
           child == nodes_'[c]
           before == nodes_[p]
       IN /\ c \notin Registered
          /\ c \in DOMAIN nodes_'
          /\ child.status = "PENDING"
          /\ child.local_decisions = last'.decisions
          /\ child.inherited_decisions
               = before.inherited_decisions \o before.local_decisions
          /\ Len(child.inherited_decisions) + Len(child.local_decisions)
               = Len(before.inherited_decisions) + Len(before.local_decisions) + 1
          /\ child.lower_bound = before.lower_bound
          /\ child.upper_bound = before.upper_bound
          /\ stats_'.nodes_created = stats_.nodes_created + 1
          /\ stats_'.nodes_open = stats_.nodes_open + 1
          /\ stats_'.max_depth
               = IF child.depth > stats_.max_depth
                   THEN child.depth ELSE stats_.max_depth
          /\ nodes_'[p].status = before.status]_vars

\* a child was created under a parent that itself inherited nothing but
\* carries a decision and a bound set by the solver
C9_Witness ==
  /\ last.op = "create_child"
  /\ LET c == last.ret_nodes[1]
     IN /\ c \in Registered
        /\ nodes_[c].depth = 2
        /\ nodes_[c].inherited_decisions # <<>>
        /\ nodes_[c].lower_bound = 5

\* C10: create_children(parent, [d1..dk]) creates k children in the order of
\* the decisions (consecutive ids, the i-th child carrying d_i), then sets
\* parent.status to Branched, increments nodes_branched by one and leaves
\* nodes_open changed by exactly k - 1; for k = 0 the parent still becomes
\* Branched and no node is created.
C10_CreateChildrenEffect ==
  [][last'.op = "create_children" =>
       LET p == last'.node
           ds == last'.decisions
           k == Len(ds)
           ret == last'.ret_nodes
       IN /\ Len(ret) = k
          /\ \A i \in 1..k :
               /\ ret[i] = next_id_ + i - 1
               /\ ret[i] \notin Registered
               /\ ret[i] \in DOMAIN nodes_'
               /\ nodes_'[ret[i]].id = ret[i]
               /\ nodes_'[ret[i]].local_decisions = <<ds[i]>>
               /\ nodes_'[ret[i]].parent_id = nodes_[p].id
               /\ nodes_'[ret[i]].status = "PENDING"
          /\ DOMAIN nodes_' = Registered \cup {ret[i] : i \in 1..k}
          /\ nodes_'[p].children = nodes_[p].children \o ret
          /\ nodes_'[p].status = "BRANCHED"
          /\ stats_'.nodes_branched = stats_.nodes_branched + 1
          /\ stats_'.nodes_open = stats_.nodes_open + k - 1
          /\ stats_'.nodes_created = stats_.nodes_created + k]_vars

\* two children were created in one call, in the order d2, d1
C10_Witness ==
  /\ last.op = "create_children"
  /\ last.decisions = <<"d2", "d1">>
  /\ Len(last.ret_nodes) = 2

\* C11: mark_processed(node, s) sets the node's status to s, increments
\* nodes_processed if and only if the previous status was Pending or
\* Processing, decrements nodes_open if and only if s is a terminal status
\* other than Branched, and increments the counter matching s for
\* PrunedBound, PrunedInfeasible and Integer.  Stated for the behaviours in
\* which every call kept to the driver's contract.
C11_MarkProcessedEffect ==
  [][(in_contract' /\ last'.op = "mark_processed") =>
       LET n == last'.node
           s == last'.status
           Inc(b) == IF b THEN 1 ELSE 0
       IN /\ nodes_'[n].status = s
          /\ stats_'.nodes_processed
               = stats_.nodes_processed
                   + Inc(nodes_[n].status \in {"PENDING", "PROCESSING"})
          /\ stats_'.nodes_open
               = stats_.nodes_open
                   - Inc(s \in {"PRUNED_BOUND", "PRUNED_INFEASIBLE",
                                "INTEGER", "FATHOMED"})
          /\ stats_'.nodes_pruned_bound
               = stats_.nodes_pruned_bound + Inc(s = "PRUNED_BOUND")
          /\ stats_'.nodes_pruned_infeasible
               = stats_.nodes_pruned_infeasible + Inc(s = "PRUNED_INFEASIBLE")
          /\ stats_'.nodes_integer
               = stats_.nodes_integer + Inc(s = "INTEGER")]_vars

\* C12: try_prune_by_bound(g) sets status to PrunedBound and returns true
\* exactly when lower_bound >= g - epsilon and the node is Pending or
\* Processing; in every other case, a terminal node included, it changes
\* nothing and returns false.  Stated for the behaviours in which every call
\* kept to the driver's contract.
C12_TryPruneOnlyNonTerminal ==
  [][(in_contract' /\ last'.op = "try_prune_by_bound") =>
       LET n == last'.node
           g == last'.value
           prunes == /\ nodes_[n].lower_bound
                          >= (IF g = INF THEN INF ELSE g - EPSILON)
                     /\ nodes_[n].status \in {"PENDING", "PROCESSING"}
       IN /\ last'.ret_flag = prunes
          /\ prunes => nodes_' = [nodes_ EXCEPT ![n].status = "PRUNED_BOUND"]
          /\ ~prunes => nodes_' = nodes_]_vars

\* the smallest element of a non-empty set of extended reals
SetMin(S) == CHOOSE x \in S : \A y \in S : x <= y

\* C13: immediately after prune_by_bound() returns, no Pending node has
\* lower_bound >= global_upper_bound - epsilon.
C13_NoPendingAboveBoundAfterPrune ==
  last.op = "prune_by_bound" =>
    \A n \in Registered :
      nodes_[n].status = "PENDING" =>
        nodes_[n].lower_bound
          < (IF global_upper_bound_ = INF THEN INF
             ELSE global_upper_bound_ - EPSILON)

\* prune_by_bound has just pruned a node and left a Pending node with a
\* stamped lower bound below the threshold
C13_Witness ==
  /\ last.op = "prune_by_bound"
  /\ last.ret_count >= 1
  /\ \E n \in Registered :
       nodes_[n].status = "PENDING" /\ nodes_[n].lower_bound \in NodeBoundValues

\* C14: prune_by_bound() returns exactly the number of nodes it changed to
\* PrunedBound, decreases nodes_open and increases nodes_pruned_bound by that
\* number, leaves every other node's status and the global bounds unchanged,
\* and returns 0 when called again with no intervening change.
C14_PruneByBoundEffect ==
  [][last'.op = "prune_by_bound" =>
       LET changed == {n \in Registered :
                         /\ nodes_[n].status # "PRUNED_BOUND"
                         /\ nodes_'[n].status = "PRUNED_BOUND"}
       IN /\ DOMAIN nodes_' = Registered
          /\ last'.ret_count = Cardinality(changed)
          /\ stats_'.nodes_open = stats_.nodes_open - last'.ret_count
          /\ stats_'.nodes_pruned_bound
               = stats_.nodes_pruned_bound + last'.ret_count
          /\ \A n \in Registered \ changed :
               nodes_'[n].status = nodes_[n].status
          /\ global_upper_bound_' = global_upper_bound_
          /\ global_lower_bound_' = global_lower_bound_
          /\ last.op = "prune_by_bound" => last'.ret_count = 0]_vars

\* prune_by_bound has just pruned two nodes at once
C14_Witness ==
  /\ last.op = "prune_by_bound"
  /\ last.ret_count >= 2
  /\ stats_.nodes_pruned_bound = last.ret_count

\* C15: update_bounds(node) returns true if and only if node.is_integer and
\* node.lp_value < global_upper_bound held before the call; then
\* global_upper_bound and stats.best_upper_bound become node.lp_value; when it
\* returns false the global bounds, the statistics, the incumbent and all
\* statuses are unchanged; it never increases global_upper_bound.
C15_UpdateBoundsEffect ==
  [][last'.op = "update_bounds" =>
       LET n == last'.node
           improved == /\ nodes_[n].is_integer
                       /\ nodes_[n].lp_value < global_upper_bound_
       IN /\ last'.ret_flag = improved
          /\ improved =>
               /\ global_upper_bound_' = nodes_[n].lp_value
               /\ stats_'.best_upper_bound = nodes_[n].lp_value
          /\ ~improved =>
               /\ global_upper_bound_' = global_upper_bound_
               /\ global_lower_bound_' = global_lower_bound_
               /\ stats_' = stats_
               /\ incumbent_' = incumbent_
               /\ \A m \in Registered : nodes_'[m].status = nodes_[m].status
          /\ global_upper_bound_' <= global_upper_bound_]_vars

\* update_bounds has just taken an integer node's value as the new bound
C15_Witness ==
  /\ last.op = "update_bounds"
  /\ last.ret_flag
  /\ global_upper_bound_ = nodes_[last.node].lp_value
  /\ stats_.best_upper_bound \in NodeBoundValues

\* C16: in every reachable state of a minimizing BPTree in which the
\* incumbent is set, the incumbent has is_integer = true and
\* lp_value <= global_upper_bound, after any sequence of set_incumbent,
\* update_bounds and set_global_upper_bound calls.  Stated for the behaviours
\* in which every call kept to the driver's contract.
C16_IncumbentIsIntegerAndWithinBound ==
  (in_contract /\ incumbent_ # INVALID_ID) =>
    /\ nodes_[incumbent_].is_integer
    /\ nodes_[incumbent_].lp_value <= global_upper_bound_

\* C17: set_incumbent(node) with a non-null node makes incumbent() return
\* that node and sets global_upper_bound and stats.best_upper_bound to
\* node.lp_value whatever the previous bound was; before any set_incumbent
\* call incumbent() is null.
C17_SetIncumbentEffect ==
  /\ incumbent_ = INVALID_ID
  /\ [][IF last'.op = "set_incumbent"
          THEN last'.node # INVALID_ID =>
                 /\ incumbent_' = last'.node
                 /\ global_upper_bound_' = nodes_[last'.node].lp_value
                 /\ stats_'.best_upper_bound = nodes_[last'.node].lp_value
          ELSE incumbent_' = incumbent_]_vars

\* set_incumbent has just installed an integer node with a stamped value
C17_Witness ==
  /\ in_contract
  /\ last.op = "set_incumbent"
  /\ last.node # INVALID_ID
  /\ incumbent_ = last.node
  /\ nodes_[incumbent_].lp_value \in NodeBoundValues
  /\ global_upper_bound_ = nodes_[incumbent_].lp_value

\* C18: compute_lower_bound(ids) returns the minimum of global_upper_bound
\* and the lower_bound of every id in the list that is registered and
\* Pending; unknown and non-explorable ids are ignored; an empty list yields
\* global_upper_bound; the call changes no state.
C18_ComputeLowerBound ==
  [][last'.op = "compute_lower_bound" =>
       LET ids == last'.ids
           counted == {ids[i] : i \in 1..Len(ids)} \cap WithStatus("PENDING")
       IN /\ last'.value
               = SetMin({global_upper_bound_}
                          \cup {nodes_[n].lower_bound : n \in counted})
          /\ ids = <<>> => last'.value = global_upper_bound_
          /\ UNCHANGED <<nodes_, next_id_, stats_, global_lower_bound_,
                         global_upper_bound_, incumbent_>>]_vars

\* compute_lower_bound has just returned the lower bound of a Pending node,
\* below the global upper bound, from a list that also names a registered
\* node that is not Pending and has a smaller lower bound
C18_Witness ==
  /\ last.op = "compute_lower_bound"
  /\ last.value < global_upper_bound_
  /\ \E i, j \in 1..Len(last.ids) :
       /\ last.ids[i] \in Registered
       /\ nodes_[last.ids[i]].status # "PENDING"
       /\ nodes_[last.ids[i]].lower_bound < last.value
       /\ last.ids[j] \in WithStatus("PENDING")
       /\ nodes_[last.ids[j]].lower_bound = last.value

\* C19: for every registered node N, get_path_to_root(N.id) has depth(N) + 1
\* ids, starts with the root id, ends with N.id, and every adjacent pair
\* (a, b) satisfies parent_id(b) = a.
C19_PathToRoot ==
  (last.op = "get_path_to_root" /\ last.node \in Registered) =>
    LET path == last.ret_nodes
    IN /\ Len(path) = nodes_[last.node].depth + 1
       /\ path[1] = 0
       /\ path[Len(path)] = last.node
       /\ \A i \in 1..(Len(path) - 1) :
            /\ path[i + 1] \in Registered
            /\ nodes_[path[i + 1]].parent_id = path[i]

\* get_path_to_root has just returned the path of a node at depth 2
C19_Witness ==
  /\ last.op = "get_path_to_root"
  /\ last.node \in Registered
  /\ nodes_[last.node].depth = 2
  /\ Len(last.ret_nodes) = 3

\* C20: get_path_to_root(id) returns the empty sequence for every id that is
\* not registered in the tree.
C20_PathOfUnknownIdIsEmpty ==
  (last.op = "get_path_to_root" /\ last.node \notin Registered) =>
    last.ret_nodes = <<>>

\* C23: add_local_decision(d) appends d at the end of local_decisions when
\* the node is Pending or Processing, and the local_decisions of a node in a
\* terminal status are never modified by it.
C23_AddLocalDecisionOnlyNonTerminal ==
  [][last'.op = "add_local_decision" =>
       LET n == last'.node
           d == last'.decisions[1]
       IN IF nodes_[n].status \in {"PENDING", "PROCESSING"}
            THEN nodes_'[n].local_decisions
                   = Append(nodes_[n].local_decisions, d)
            ELSE nodes_'[n].local_decisions = nodes_[n].local_decisions]_vars

\* C21: along any sequence of update_bounds calls (which can only lower
\* global_upper_bound), optionally interleaved with set_global_lower_bound
\* calls that only raise global_lower_bound, the value of BPTree::gap() never
\* increases from one call to the next.  Stated for the behaviours in which
\* every call kept to the driver's contract.
C21_GapNeverIncreases ==
  [][(in_contract' /\ last'.op \in {"update_bounds", "set_global_lower_bound"})
       => RatioLeq(gap(global_lower_bound_', global_upper_bound_'),
                   gap(global_lower_bound_, global_upper_bound_))]_vars

\* update_bounds gives another result, or leaves another upper bound, on a
\* tree of the other sense
SenseMatters(t, global_upper, node) ==
  LET a == update_bounds([t EXCEPT !.minimize = TRUE], global_upper, node)
      b == update_bounds([t EXCEPT !.minimize = FALSE], global_upper, node)
  IN a.improved # b.improved \/ a.global_upper_bound # b.global_upper_bound

\* two trees agree on nodes, ids and counters
SameStructure(a, b) ==
  a.nodes = b.nodes /\ a.next_id = b.next_id /\ a.stats = b.stats

\* node creation and status bookkeeping give the same nodes, ids, links,
\* statuses and counters on a tree of either sense
StructureIgnoresSense ==
  LET min == [Tree EXCEPT !.minimize = TRUE]
      max == [Tree EXCEPT !.minimize = FALSE]
  IN /\ \A p \in Registered, d \in Decisions :
          SameStructure(create_child(min, p, d).t, create_child(max, p, d).t)
     /\ \A p \in Registered, ds \in DecisionLists :
          SameStructure(create_children(min, p, ds).t,
                        create_children(max, p, ds).t)
     /\ \A n \in Registered, st \in NodeStatus :
          SameStructure(mark_processed(min, n, st), mark_processed(max, n, st))
     /\ SameStructure(prune_by_bound(min, global_upper_bound_).t,
                      prune_by_bound(max, global_upper_bound_).t)

\* C22: the sense passed to the BPTree constructor affects the outcome of
\* improvement comparisons (from the tree of any reachable state there is a
\* stamping of a node and a global upper bound for which update_bounds on a
\* minimize=false tree gives a different result or upper bound than on a
\* minimize=true tree) and does not affect structural behaviour.
C22_SenseAffectsComparisonsNotStructure ==
  /\ \E n \in Registered, b \in BOOLEAN, lp \in NodeBoundValues,
        g \in GlobalBoundValues :
       SenseMatters([Tree EXCEPT !.nodes[n].is_integer = b,
                                 !.nodes[n].lp_value = lp], g, n)
  /\ StructureIgnoresSense

\* C24: for each of the four selectors, a node returned by select_next has
\* status Pending at the moment it is returned; handles whose node became
\* non-explorable after add_node are never returned, and add_node of a null
\* or non-explorable node inserts nothing.
C24_SelectNextReturnsPending ==
  [][/\ (last'.op = "select_next" /\ last'.node # INVALID_ID) =>
          /\ last'.node \in Held(selector_)
          /\ nodes_'[last'.node].status = "PENDING"
     /\ (/\ last'.op = "add_node"
         /\ \/ last'.node = INVALID_ID
            \/ nodes_[last'.node].status # "PENDING") =>
          selector_' = selector_]_vars

\* select_next has just returned a node from a selector that also held the
\* handle of a node that is no longer Pending
C24_Witness ==
  /\ last.op = "select_next"
  /\ last.node # INVALID_ID
  /\ \E n \in last.held_before : nodes_[n].status # "PENDING"

\* C25: for each of the four selectors, select_next removes the node it
\* returns from the working set: a node that was added once is returned by
\* no later select_next call unless it is added again, whether or not the
\* driver has changed the node's status in between.  Stated for the
\* behaviours in which every call kept to the driver's contract.
C25_ReturnedOncePerAdd ==
  [][(in_contract' /\ last'.op = "select_next" /\ last'.node # INVALID_ID)
       => unreturned[last'.node] > 0]_vars

\* C26: for each of the four selectors in every reachable state, select_next
\* returns null if and only if empty() returned true immediately before the
\* call.  Stated for the behaviours in which every call kept to the driver's
\* contract.
C26_NullIffEmpty ==
  [][(in_contract' /\ last'.op = "select_next")
       => ((last'.node = INVALID_ID) <=> empty(selector_))]_vars

\* C27: for each of the four selectors at any instant, including when held
\* nodes have been pruned or processed by the tree since they were added,
\* best_bound() equals the minimum lower_bound over the held nodes that are
\* explorable, and +infinity when there is none.  Stated for the behaviours
\* in which every call kept to the driver's contract.
C27_BestBoundIsMinOverExplorable ==
  (in_contract /\ last.op = "best_bound") =>
    last.value
      = SetMin({INF} \cup {nodes_[n].lower_bound :
                             n \in Held(selector_) \cap WithStatus("PENDING")})

\* C28: for each of the four selectors in every reachable state, peek_next
\* returns exactly the node that an immediately following select_next
\* returns (null when select_next returns null), and peek_next itself changes
\* no selector state.  Stated for the behaviours in which every call kept to
\* the driver's contract.
C28_PeekIsNextSelect ==
  [][/\ (in_contract' /\ last.op = "peek_next" /\ last'.op = "select_next")
          => last'.node = last.node
     /\ last'.op = "peek_next" => selector_' = selector_]_vars

\* C29: for a BestFirstSelector holding a static working set (no adds, no
\* bound or status changes), the lower bounds of the nodes returned by
\* repeated select_next form a non-decreasing sequence, and after the last
\* node is returned empty() is true and best_bound() is +infinity.
C29_BestFirstOrder ==
  [][(selector_.kind = "best_first" /\ last'.op = "select_next"
        /\ last'.node # INVALID_ID) =>
       /\ (last.op = "select_next" /\ last.node # INVALID_ID) =>
            nodes_[last.node].lower_bound <= nodes_[last'.node].lower_bound
       /\ Held(selector_') \cap WithStatus("PENDING") = {} =>
            /\ empty(selector_')
            /\ best_bound(selector_', nodes_') = INF]_vars

\* a BestFirstSelector has just handed out its last node, after a node with
\* a smaller lower bound in the call before
C29_Witness ==
  /\ selector_.kind = "best_first"
  /\ last.op = "select_next"
  /\ last.node # INVALID_ID
  /\ last.prev_node # INVALID_ID
  /\ nodes_[last.prev_node].lower_bound < nodes_[last.node].lower_bound
  /\ selector_.s.queue_ = <<>>

\* C30: for a DepthFirstSelector holding a static working set, the depths of
\* the nodes returned by repeated select_next form a non-increasing sequence,
\* and among nodes of equal depth the one with the smaller lower_bound is
\* returned first.
C30_DepthFirstOrder ==
  [][(/\ selector_.kind = "depth_first"
      /\ last.op = "select_next" /\ last.node # INVALID_ID
      /\ last'.op = "select_next" /\ last'.node # INVALID_ID) =>
       /\ nodes_[last.node].depth >= nodes_[last'.node].depth
       /\ nodes_[last.node].depth = nodes_[last'.node].depth =>
            nodes_[last.node].lower_bound <= nodes_[last'.node].lower_bound]_vars

\* a DepthFirstSelector has just handed out a node of the same depth as, and
\* with a larger lower bound than, the node of the call before
C30_Witness ==
  /\ selector_.kind = "depth_first"
  /\ last.op = "select_next"
  /\ last.node # INVALID_ID
  /\ last.prev_node # INVALID_ID
  /\ nodes_[last.prev_node].depth = nodes_[last.node].depth
  /\ nodes_[last.prev_node].lower_bound < nodes_[last.node].lower_bound

\* C31: prune() drops exactly the held handles whose node is not explorable,
\* returns how many handles left the working set, and returns 0 when it is
\* called again right away.
C31_PruneRemovesStaleAndCounts ==
  [][last'.op = "prune" /\ in_contract'
       => /\ Held(selector_') = {n \in Held(selector_) : can_be_explored(nodes_[n])}
          /\ last'.ret_count = Cardinality(Held(selector_) \ Held(selector_'))
          /\ (last.op = "prune" => last'.ret_count = 0)]_vars

\* the explorable nodes a selector holds
HeldExplorable == {n \in Held(selector_) : can_be_explored(nodes_[n])}

\* node r is one the best-first rule may serve from the nodes E
BestFirstRule(r, E) ==
  r \in E /\ \A m \in E : nodes_[r].lower_bound <= nodes_[m].lower_bound

\* node r is one the depth-first rule may serve from the nodes E
DepthFirstRule(r, E) ==
  /\ r \in E
  /\ \A m \in E :
       \/ nodes_[m].depth < nodes_[r].depth
       \/ /\ nodes_[m].depth = nodes_[r].depth
          /\ nodes_[r].lower_bound <= nodes_[m].lower_bound

\* C32: a fresh HybridSelector(f, d) whose driver processes each node before
\* the next call serves in blocks: f selections by the best-first rule with
\* nodes_since_dive starting from 0, then d selections by the depth-first
\* rule, and so on.
C32_HybridServesInBlocks ==
  [][last'.op = "select_next"
       => LET f == selector_.s.dive_frequency_
              d == selector_.s.dive_depth_
              position == hist.selects % (f + d)
          IN /\ position = 0 => selector_.s.nodes_since_dive_ = 0
             /\ position < f => BestFirstRule(last'.node, HeldExplorable)
             /\ position >= f => DepthFirstRule(last'.node, HeldExplorable)]_vars

\* the first selection of the second cruise block has been served
C32_Witness ==
  /\ last.op = "select_next"
  /\ last.node # INVALID_ID
  /\ hist.selects = selector_.s.dive_frequency_ + selector_.s.dive_depth_ + 1

\* C33: when n distinct explorable nodes are added, nothing is added later
\* and each returned node is fathomed before the next call, select_next
\* returns a node exactly while an added node has not been returned yet, and
\* the node it returns is one that has not been returned before.
C33_DrainReturnsEachNodeOnce ==
  [][last'.op = "select_next"
       => /\ last'.node # INVALID_ID <=> \E n \in DOMAIN unreturned : unreturned[n] > 0
          /\ last'.node # INVALID_ID
               => unreturned[last'.node] = 1 /\ last'.node \notin hist.returned]_vars

\* two added nodes have been returned and the call after that returned null
C33_Witness ==
  /\ last.op = "select_next"
  /\ last.node = INVALID_ID
  /\ Cardinality(hist.returned) >= 2
  /\ hist.selects = Cardinality(hist.returned) + 1
  /\ \A n \in DOMAIN unreturned : unreturned[n] = 0

\* The estimate of node n as the history of the calls defines it, as an IEEE
\* double scaled by a positive factor that is the same for every node:
\* lower_bound - w * depth while no finite upper bound was reported, and
\* lower_bound + w * (1 - depth / max(1, deepest accepted)) * (last reported
\* bound - lower_bound) afterwards.
EstimateFromHistory(n) ==
  LET lb == nodes_[n].lower_bound
      depth == nodes_[n].depth
      w == selector_.s.estimate_weight_
      deepest == Max(1, hist.max_depth_seen)
      ub == hist.last_bound
  IN IF ~hist.finite_reported
       THEN IF lb = INF THEN PosInf
            ELSE IF lb = NEG_INF THEN NegInf
            ELSE Finite(lb * w.den - w.num * depth * Unit)
     ELSE IF lb = INF \/ lb = NEG_INF THEN NaN
     ELSE IF ub = INF
       THEN (IF deepest - depth = 0 THEN NaN ELSE PosInf)
     ELSE Finite(lb * w.den * deepest + w.num * (deepest - depth) * (ub - lb))

C35_PruneByBoundCoversProcessing ==
  [][last'.op = "prune_by_bound" /\ in_contract'
       => LET hit == {n \in Registered :
                        /\ nodes_[n].status \in {"PENDING", "PROCESSING"}
                        /\ nodes_[n].lower_bound >= Minus(global_upper_bound_, EPSILON)}
          IN /\ \A n \in hit : nodes_'[n].status = "PRUNED_BOUND"
             /\ last'.ret_count = Cardinality(hit)]_vars

\* C37: select_next on a selector that holds no explorable node returns null
\* and does not advance the cruise/diving schedule of a HybridSelector:
\* nodes_since_dive, current_dive_depth and the diving flag stay as they were.
C37_NullSelectKeepsSchedule ==
  [][last'.op = "select_next" /\ HeldExplorable = {} /\ in_contract'
       => /\ last'.node = INVALID_ID
          /\ selector_.kind = "hybrid"
               => /\ selector_'.s.nodes_since_dive_ = selector_.s.nodes_since_dive_
                  /\ selector_'.s.current_dive_depth_ = selector_.s.current_dive_depth_
                  /\ selector_'.s.diving_ = selector_.s.diving_]_vars

\* C38: in every reachable state stats.best_upper_bound equals
\* global_upper_bound.
C38_StatsUpperBoundIsGlobal ==
  in_contract => stats_.best_upper_bound = global_upper_bound_

\* C39: in every reachable state is_complete() is true exactly when no
\* registered node is Pending, that is exactly when get_open_nodes() is
\* empty, and get_open_nodes() returns exactly the ids of the Pending nodes.
C39_CompleteIffNoPending ==
  in_contract =>
    /\ get_open_nodes(Tree) = WithStatus("PENDING")
    /\ is_complete(Tree) <=> WithStatus("PENDING") = {}
    /\ is_complete(Tree) <=> get_open_nodes(Tree) = {}

====
